---- MODULE Spec2Model ----
(***************************************************************************)
(* BroccoliDependencyFunnel (src/src/index.js): an incremental build node  *)
(* that copies forward either the dependency graph of an entry module or   *)
(* everything outside of it.                                               *)
(*                                                                         *)
(* A path is the sequence of its "/"-separated segments.  A file of the    *)
(* input directory is absent or carries its stat (mtime) and the import    *)
(* specifiers its text holds, in order.  The output directory holds copies *)
(* of input files.  Directories are implied by the files below them.       *)
(***************************************************************************)
EXTENDS Integers, Sequences, FiniteSets, TLC

VARIABLES
    inst,              \* "none" | "constructed" | "threw": outcome of new BroccoliDependencyFunnel(...)
    options,           \* the options object handed to the constructor
    include,           \* this.include
    _depGraph,         \* this._depGraph         (<<>> is undefined, <<v>> is the value v)
    _depGraphTree,     \* this._depGraphTree
    _nonDepGraph,      \* this._nonDepGraph
    _nonDepGraphTree,  \* this._nonDepGraphTree
    input,             \* the files under this.inputPaths[0]
    output,            \* the files under this.outputPath
    clock,             \* the file system's clock: the time of the latest change of the input
    walk,              \* rollup's walk of the modules, step by step
    fault,             \* the I/O error the file system raises at the next wipe or copy: "none" | "rimraf" | "copy"
    changed,           \* history: input paths written or unlinked since the last build()
    lastBuild          \* history: what the last build() did

vars == <<inst, options, include, _depGraph, _depGraphTree, _nonDepGraph,
          _nonDepGraphTree, input, output, clock, walk, fault, changed, lastBuild>>

\* Number of changes (writes, unlinks) of the input directory in one behaviour.
MaxClock == 2

-----------------------------------------------------------------------------
(* The fixture: paths, the entry, the external specifier, file texts.      *)

\* this.inputPaths[0], "/in"
inputPath == <<"", "in">>

\* options.entry of every test
entry == <<"routes.js">>

\* options.external of every test
external == << <<"ember-engines", "routes">> >>

\* Every file path of the model, in the order Array.prototype.sort gives
\* the "/"-joined strings.
SortedPaths ==
    << <<"ember-engines", "routes.js">>,
       <<"engine.js">>,
       <<"routes.js">>,
       <<"utils", "derp.js">>,
       <<"utils", "foo.js">> >>

Paths == {SortedPaths[i] : i \in 1..Len(SortedPaths)}

Rank(p) == CHOOSE i \in 1..Len(SortedPaths) : SortedPaths[i] = p

\* The import specifiers a file's text may hold (the texts written by
\* fixture.writeSync in the tests, and variations of them).
Contents(p) ==
    CASE p = <<"routes.js">> ->
            { << <<"ember-engines", "routes">>, <<"utils", "foo">> >>,
              << <<"utils", "derp">> >>,
              << <<"utils", "foo">>, <<"utils", "derp">> >> }
      [] p = <<"utils", "foo.js">> ->
            { << <<".", "derp">> >>, << <<"..", "routes">> >> }
      [] p = <<"utils", "derp.js">> -> { <<>> }
      [] p = <<"engine.js">> -> { << <<".", "utils", "derp">> >> }
      [] p = <<"ember-engines", "routes.js">> -> { << <<"..", "engine">> >> }

Absent == [exists |-> FALSE]

File(m, c) == [exists |-> TRUE, mtime |-> m, imports |-> c]

\* The texts beforeEach writes, at mtime 0.
FixtureText(p) ==
    CASE p = <<"routes.js">> -> << <<"ember-engines", "routes">>, <<"utils", "foo">> >>
      [] p = <<"utils", "foo.js">> -> << <<".", "derp">> >>
      [] OTHER -> CHOOSE c \in Contents(p) : TRUE

Fixture(present) == [p \in Paths |-> IF p \in present THEN File(0, FixtureText(p)) ELSE Absent]

\* The input trees a behaviour starts from.
InitialTrees ==
    { Fixture(Paths),
      Fixture(Paths \ {<<"ember-engines", "routes.js">>}),
      Fixture(Paths \ {entry}) }

-----------------------------------------------------------------------------
(* JavaScript values of the options include / exclude.                     *)

Undefined == [type |-> "undefined"]
Bool(b) == [type |-> "boolean", val |-> b]
Num(n) == [type |-> "number", val |-> n]
Str(s) == [type |-> "string", val |-> s]

OptionValues == {Undefined, Bool(TRUE), Bool(FALSE), Num(0), Num(1), Num(2), Str(""), Str("yes")}

\* ToBoolean
Truthy(v) ==
    CASE v.type = "undefined" -> FALSE
      [] v.type = "boolean" -> v.val
      [] v.type = "number" -> v.val # 0
      [] v.type = "string" -> v.val # ""

\* ToInt32, as the operands of ^ are converted: a string that is no numeral
\* is NaN, which is 0.
ToInt32(v) ==
    CASE v.type = "undefined" -> 0
      [] v.type = "boolean" -> IF v.val THEN 1 ELSE 0
      [] v.type = "number" -> v.val
      [] v.type = "string" -> 0

RECURSIVE BitXor(_, _)
BitXor(a, b) ==
    IF a = 0 /\ b = 0 THEN 0
    ELSE (IF (a % 2) # (b % 2) THEN 1 ELSE 0) + 2 * BitXor(a \div 2, b \div 2)

-----------------------------------------------------------------------------
(* Sequences.                                                              *)

Front(s) == SubSeq(s, 1, Len(s) - 1)

Last(s) == s[Len(s)]

Range(s) == {s[i] : i \in 1..Len(s)}

IsPrefix(s, t) == Len(s) <= Len(t) /\ SubSeq(t, 1, Len(s)) = s

\* Array.prototype.sort on path strings: ascending, duplicates kept.
RECURSIVE Insert(_, _)
Insert(p, s) ==
    IF s = <<>> THEN <<p>>
    ELSE IF Rank(p) <= Rank(Head(s)) THEN <<p>> \o s
    ELSE <<Head(s)>> \o Insert(p, Tail(s))

RECURSIVE Sort(_)
Sort(s) == IF s = <<>> THEN <<>> ELSE Insert(Head(s), Sort(Tail(s)))

-----------------------------------------------------------------------------
(* The file system and the helpers of src/utils.                           *)

\* existsSync(path.join(inputPath, p))
existsSync(p) == p \in Paths /\ input[p].exists

\* fs.readdirSync(inputPath): the names directly under the input root, files
\* and directories, each once.
readdirSync ==
    LET here == SelectSeq(SortedPaths, LAMBDA p : input[p].exists)
        first(i) == \A j \in 1..(i - 1) : Head(here[j]) # Head(here[i])
        RECURSIVE names(_)
        names(i) ==
            IF i > Len(here) THEN <<>>
            ELSE (IF first(i) THEN << <<Head(here[i])>> >> ELSE <<>>) \o names(i + 1)
    IN  names(1)

\* copyFile(path.join(inputPath, inode), path.join(outputPath, inode)): the
\* file, or every file below the directory, is copied forward over whatever
\* the output holds there.
copyFile(inode, out) ==
    [p \in Paths |-> IF IsPrefix(inode, p) /\ input[p].exists THEN input[p] ELSE out[p]]

\* filterDirectory(inputPath, '', (module) => modules.indexOf(module) === -1):
\* the files under the input root that are not in modules, in directory order.
filterDirectory(modules) ==
    SelectSeq(SortedPaths, LAMBDA p : input[p].exists /\ p \notin Range(modules))

\* rimraf.sync(this.outputPath)
rimraf == [p \in Paths |-> Absent]

-----------------------------------------------------------------------------
(* fs-tree-diff: a tree is the sequence of its entries.                    *)

\* Entry.fromStat(entryPath, existsStat(absolutePath))
fromStat(p) == [relativePath |-> p, mtime |-> input[p].mtime]

\* FSTree.fromEntries validates that the entries are sorted and unique, and
\* throws when they are not.
validSortedUnique(entries) ==
    \A i \in 2..Len(entries) :
        Rank(entries[i - 1].relativePath) < Rank(entries[i].relativePath)

HasEntry(tree, p) == \E i \in 1..Len(tree) : tree[i].relativePath = p

EntryOf(tree, p) == tree[CHOOSE i \in 1..Len(tree) : tree[i].relativePath = p]

\* oldTree.calculatePatch(newTree): the removals, last path first, then the
\* creations and changes in path order.
calculatePatch(oldTree, newTree) ==
    LET removed == SelectSeq(oldTree, LAMBDA e : ~HasEntry(newTree, e.relativePath))
        added == SelectSeq(newTree, LAMBDA e :
                     \/ ~HasEntry(oldTree, e.relativePath)
                     \/ EntryOf(oldTree, e.relativePath).mtime # e.mtime)
        unlinks == [i \in 1..Len(removed) |->
                     [op |-> "unlink", path |-> removed[Len(removed) + 1 - i].relativePath]]
        writes == [i \in 1..Len(added) |->
                     [op |-> IF HasEntry(oldTree, added[i].relativePath) THEN "change" ELSE "create",
                      path |-> added[i].relativePath]]
    IN  unlinks \o writes

\* FSTree.applyPatch(inputPath, outputPath, patch) with the default delegate
\* on copied files: unlink is fs.unlinkSync (throws when the output file is
\* missing), change is fs.unlinkSync followed by a copy, create is a copy.
\* The operations before a throwing one stay applied.
RECURSIVE applyPatch(_, _, _)
applyPatch(patch, out, done) ==
    IF patch = <<>> THEN [out |-> out, threw |-> FALSE, done |-> done]
    ELSE LET o == Head(patch)
         IN  IF o.op \in {"unlink", "change"} /\ ~out[o.path].exists
             THEN [out |-> out, threw |-> TRUE, done |-> done]
             ELSE applyPatch(Tail(patch),
                             [out EXCEPT ![o.path] = IF o.op = "unlink" THEN Absent ELSE input[o.path]],
                             done \cup {o.path})

-----------------------------------------------------------------------------
(* amd-name-resolver and the walk rollup makes through the plugin.         *)

IsRelative(importee) == Head(importee) \in {".", ".."}

\* moduleResolve(child, name): a relative child is resolved against the
\* directory of name.
RECURSIVE resolveParts(_, _)
resolveParts(parts, parentBase) ==
    IF parts = <<>> THEN parentBase
    ELSE IF Head(parts) = ".." THEN resolveParts(Tail(parts), Front(parentBase))
    ELSE IF Head(parts) = "." THEN resolveParts(Tail(parts), parentBase)
    ELSE resolveParts(Tail(parts), Append(parentBase, Head(parts)))

amdNameResolver(child, name) ==
    IF ~IsRelative(child) THEN child ELSE resolveParts(child, Front(name))

\* .replace(inputPath, ''): a leading "/in" is cut, the "/" after it stays.
replaceInputPath(segs) ==
    IF IsPrefix(inputPath, segs) THEN <<"">> \o SubSeq(segs, Len(inputPath) + 1, Len(segs)) ELSE segs

\* .replace(/^\//, '')
replaceLeadingSlash(segs) == IF segs # <<>> /\ Head(segs) = "" THEN Tail(segs) ELSE segs

\* moduleName + '.js'
addJs(moduleName) == [moduleName EXCEPT ![Len(moduleName)] = @ \o ".js"]

\* resolveId(importee, importer) for an importer: the module's path under
\* the input root when that file exists.
resolveId(importee, importer) ==
    LET moduleName == replaceLeadingSlash(replaceInputPath(amdNameResolver(importee, importer)))
        modulePath == addJs(moduleName)
    IN  [found |-> existsSync(modulePath), module |-> modulePath]

\* Mutant of isExternal: the external option is not handed on to rollup.
isExternalDropped(importee) == FALSE

\* rollup asks its external option first: a listed specifier never reaches
\* the plugin's resolveId.
isExternal(importee) == importee \in Range(external)

\* The walk rollup has not begun, or has ended.
NoWalk == [stack |-> <<>>, modules |-> <<>>, loaded |-> <<>>, threw |-> FALSE, done |-> TRUE]

\* rollup(this._getRollupOptions(modules)) begins: resolveId(entry, undefined)
\* pushes the entry, the entry is loaded.
fetchEntry ==
    LET moduleName == replaceInputPath(entry)
    IN  [stack |-> <<[id |-> moduleName, sources |-> input[moduleName].imports]>>,
         modules |-> <<moduleName>>, loaded |-> <<moduleName>>,
         threw |-> FALSE, done |-> FALSE]

\* Mutant of fetchStep: a module counts as loaded only while its imports are
\* being walked.
fetchStepLoadingOnly(w) ==
    IF w.stack = <<>> THEN [w EXCEPT !.done = TRUE]
    ELSE LET top == Last(w.stack)
         IN  IF top.sources = <<>> THEN [w EXCEPT !.stack = Front(w.stack)]
             ELSE LET source == Head(top.sources)
                      rest == [w.stack EXCEPT ![Len(w.stack)].sources = Tail(top.sources)]
                      r == resolveId(source, inputPath \o top.id)
                  IN  IF isExternal(source) THEN [w EXCEPT !.stack = rest]
                      ELSE IF ~r.found
                      THEN IF IsRelative(source)
                           THEN [w EXCEPT !.threw = TRUE, !.done = TRUE]
                           ELSE [w EXCEPT !.stack = rest]
                      ELSE IF r.module = top.id
                      THEN [w EXCEPT !.modules = Append(w.modules, r.module),
                                     !.threw = TRUE, !.done = TRUE]
                      ELSE IF r.module \in {w.stack[i].id : i \in 1..Len(w.stack)}
                      THEN [w EXCEPT !.stack = rest, !.modules = Append(w.modules, r.module)]
                      ELSE [w EXCEPT
                              !.stack = Append(rest, [id |-> r.module,
                                                      sources |-> input[r.module].imports]),
                              !.modules = Append(w.modules, r.module),
                              !.loaded = Append(w.loaded, r.module)]

\* One step of rollup's fetchModule / fetchAllDependencies, depth first: the
\* next import of the module being walked is resolved (resolveId pushes what
\* it finds) and a module not loaded before is loaded, its imports walked
\* next.  loaded is the list of the modules loaded, in order.  rollup throws
\* on a relative import that resolves to nothing and on a module that imports
\* itself.
fetchStep(w) ==
    IF w.stack = <<>> THEN [w EXCEPT !.done = TRUE]
    ELSE LET top == Last(w.stack)
         IN  IF top.sources = <<>> THEN [w EXCEPT !.stack = Front(w.stack)]
             ELSE LET source == Head(top.sources)
                      rest == [w.stack EXCEPT ![Len(w.stack)].sources = Tail(top.sources)]
                      r == resolveId(source, inputPath \o top.id)
                  IN  IF isExternal(source) THEN [w EXCEPT !.stack = rest]
                      ELSE IF ~r.found
                      THEN IF IsRelative(source)
                           THEN [w EXCEPT !.threw = TRUE, !.done = TRUE]
                           ELSE [w EXCEPT !.stack = rest]
                      ELSE IF r.module = top.id
                      THEN [w EXCEPT !.modules = Append(w.modules, r.module),
                                     !.threw = TRUE, !.done = TRUE]
                      ELSE IF r.module \in Range(w.loaded)
                      THEN [w EXCEPT !.stack = rest, !.modules = Append(w.modules, r.module)]
                      ELSE [w EXCEPT
                              !.stack = Append(rest, [id |-> r.module,
                                                      sources |-> input[r.module].imports]),
                              !.modules = Append(w.modules, r.module),
                              !.loaded = Append(w.loaded, r.module)]

\* The walk, to its end.
RECURSIVE fetch(_)
fetch(w) == IF w.done THEN w ELSE fetch(fetchStep(w))

\* rollup(rollupOptions), to the settling of its promise.
rollup == fetch(fetchEntry)

-----------------------------------------------------------------------------
(* The methods of BroccoliDependencyFunnel.  A method that changes the     *)
(* instance or the output yields the values it leaves behind, also when it *)
(* throws part-way.                                                        *)

IsDef(field) == field # <<>>

Val(field) == field[1]

\* The constructor throws unless include ^ exclude is non-zero.
constructorThrows(opts) == BitXor(ToInt32(opts.include), ToInt32(opts.exclude)) = 0

\* _getFSTree(paths): the entries of the paths that exist, handed to
\* FSTree.fromEntries.
_getFSTree(paths) ==
    LET existing == SelectSeq(paths, LAMBDA p : existsSync(p))
        entries == [i \in 1..Len(existing) |-> fromStat(existing[i])]
    IN  [threw |-> ~validSortedUnique(entries), tree |-> entries]

\* _copy(inodes)
RECURSIVE _copy(_, _)
_copy(inodes, out) ==
    IF inodes = <<>> THEN out ELSE _copy(Tail(inodes), copyFile(Head(inodes), out))

\* What build() leaves when it changes nothing.
Untouched(branch, threw) ==
    [depGraph |-> _depGraph, depGraphTree |-> _depGraphTree,
     nonDepGraph |-> _nonDepGraph, nonDepGraphTree |-> _nonDepGraphTree,
     out |-> output, threw |-> threw, branch |-> branch,
     wiped |-> FALSE, copied |-> {}, patched |-> {}, faulted |-> FALSE]

\* Mutant of _buildNonDepGraphChanges: the files outside the graph are listed
\* again on every differential update.
_buildNonDepGraphChangesRelisting ==
    LET incomingNonDepGraphTree == _getFSTree(Val(_nonDepGraph))
        nonDepGraphPatch == calculatePatch(Val(_nonDepGraphTree), incomingNonDepGraphTree.tree)
        applied == applyPatch(nonDepGraphPatch, output, {})
        relisted == [Untouched("diff", FALSE) EXCEPT
                        !.nonDepGraph = <<Sort(filterDirectory(Val(_depGraph)))>>]
    IN  IF ~IsDef(_nonDepGraph) \/ incomingNonDepGraphTree.threw \/ ~IsDef(_nonDepGraphTree)
        THEN Untouched("diff", TRUE)
        ELSE IF nonDepGraphPatch = <<>> THEN relisted
        ELSE IF ~include
        THEN [relisted EXCEPT !.threw = applied.threw, !.out = applied.out,
                              !.patched = applied.done]
        ELSE relisted

\* _buildNonDepGraphChanges()
_buildNonDepGraphChanges ==
    LET incomingNonDepGraphTree == _getFSTree(Val(_nonDepGraph))
        nonDepGraphPatch == calculatePatch(Val(_nonDepGraphTree), incomingNonDepGraphTree.tree)
        applied == applyPatch(nonDepGraphPatch, output, {})
    IN  IF ~IsDef(_nonDepGraph) \/ incomingNonDepGraphTree.threw \/ ~IsDef(_nonDepGraphTree)
        THEN Untouched("diff", TRUE)
        ELSE IF nonDepGraphPatch = <<>> THEN Untouched("diff", FALSE)
        ELSE IF ~include
        THEN [Untouched("diff", applied.threw) EXCEPT !.out = applied.out, !.patched = applied.done]
        ELSE Untouched("diff", FALSE)

\* Mutant of _copyDepGraph: the output directory is not wiped before the copy.
_copyDepGraphNoWipe(modules) ==
    LET depGraph == Sort(modules)
        nonDepGraph == Sort(filterDirectory(modules))
        toCopy == IF include THEN depGraph ELSE nonDepGraph
        copied == _copy(toCopy, output)
        depGraphTree == _getFSTree(depGraph)
        nonDepGraphTree == _getFSTree(nonDepGraph)
        assigned == [Untouched("full", FALSE) EXCEPT
                        !.depGraph = <<depGraph>>, !.nonDepGraph = <<nonDepGraph>>,
                        !.out = copied, !.wiped = TRUE, !.copied = Range(toCopy)]
    IN  IF depGraphTree.threw THEN [assigned EXCEPT !.threw = TRUE]
        ELSE IF nonDepGraphTree.threw
        THEN [assigned EXCEPT !.threw = TRUE, !.depGraphTree = <<depGraphTree.tree>>]
        ELSE [assigned EXCEPT !.depGraphTree = <<depGraphTree.tree>>,
                              !.nonDepGraphTree = <<nonDepGraphTree.tree>>]

\* _copyDepGraph(modules): the two path lists are assigned, the output is
\* wiped and filled, then the two snapshots are assigned.  An I/O error of
\* rimraf.sync leaves the output as it was, one of the first copyFile leaves
\* it wiped; either ends the method before the snapshots.
_copyDepGraph(modules) ==
    LET depGraph == Sort(modules)
        nonDepGraph == Sort(filterDirectory(modules))
        toCopy == IF include THEN depGraph ELSE nonDepGraph
        copied == _copy(toCopy, rimraf)
        depGraphTree == _getFSTree(depGraph)
        nonDepGraphTree == _getFSTree(nonDepGraph)
        assigned == [Untouched("full", FALSE) EXCEPT
                        !.depGraph = <<depGraph>>, !.nonDepGraph = <<nonDepGraph>>,
                        !.out = copied, !.wiped = TRUE, !.copied = Range(toCopy)]
    IN  IF fault = "rimraf"
        THEN [Untouched("full", TRUE) EXCEPT
                 !.depGraph = <<depGraph>>, !.nonDepGraph = <<nonDepGraph>>,
                 !.faulted = TRUE]
        ELSE IF fault = "copy" /\ toCopy # <<>>
        THEN [Untouched("full", TRUE) EXCEPT
                 !.depGraph = <<depGraph>>, !.nonDepGraph = <<nonDepGraph>>,
                 !.out = rimraf, !.wiped = TRUE, !.faulted = TRUE]
        ELSE IF depGraphTree.threw THEN [assigned EXCEPT !.threw = TRUE]
        ELSE IF nonDepGraphTree.threw
        THEN [assigned EXCEPT !.threw = TRUE, !.depGraphTree = <<depGraphTree.tree>>]
        ELSE [assigned EXCEPT !.depGraphTree = <<depGraphTree.tree>>,
                              !.nonDepGraphTree = <<nonDepGraphTree.tree>>]

\* build() from the check of the entry on.
resolveAndCopy ==
    LET entryExists == existsSync(entry)
        walked == rollup
    IN  IF ~entryExists
        THEN IF ~include
             THEN [Untouched("absent", FALSE) EXCEPT
                      !.out = _copy(readdirSync, output),
                      !.copied = {p \in Paths : input[p].exists}]
             ELSE Untouched("absent", FALSE)
        ELSE IF walked.threw THEN Untouched("walk", TRUE)
        ELSE _copyDepGraph(walked.modules)

\* Mutant of build: the check of the cached dependency graph is skipped, every
\* build resolves again.
buildAlwaysResolves == resolveAndCopy

\* build()
build ==
    LET incomingDepGraphTree == _getFSTree(Val(_depGraph))
        depGraphPatch == calculatePatch(Val(_depGraphTree), incomingDepGraphTree.tree)
        hasDepGraphChanges == depGraphPatch # <<>>
    IN  IF IsDef(_depGraph)
        THEN IF incomingDepGraphTree.threw \/ ~IsDef(_depGraphTree)
             THEN Untouched("check", TRUE)
             ELSE IF ~hasDepGraphChanges THEN _buildNonDepGraphChanges
             ELSE resolveAndCopy
        ELSE resolveAndCopy

-----------------------------------------------------------------------------
(* The state machine.                                                      *)

NoBuild ==
    [ran |-> FALSE, branch |-> "none", threw |-> FALSE, wiped |-> FALSE,
     copied |-> {}, patched |-> {}, changed |-> {}, changedGraph |-> FALSE,
     hadGraph |-> FALSE, prevOk |-> FALSE, outBefore |-> [p \in Paths |-> Absent],
     faulted |-> FALSE, prevFaulted |-> FALSE,
     snapshotEqual |-> FALSE, cachesKept |-> TRUE]

InitWith(opts) ==
    /\ inst = "none"
    /\ options \in opts
    /\ include = FALSE
    /\ _depGraph = <<>>
    /\ _depGraphTree = <<>>
    /\ _nonDepGraph = <<>>
    /\ _nonDepGraphTree = <<>>
    /\ input \in InitialTrees
    /\ output = [p \in Paths |-> Absent]
    /\ clock = 0
    /\ walk = NoWalk
    /\ fault = "none"
    /\ changed = {}
    /\ lastBuild = NoBuild

\* The options of the tests: include: true, or exclude: true.
TestOptions ==
    { [include |-> Bool(TRUE), exclude |-> Undefined],
      [include |-> Undefined, exclude |-> Bool(TRUE)] }

Init == InitWith(TestOptions)

\* new BroccoliDependencyFunnel(node, options)
Construct ==
    /\ inst = "none"
    /\ IF constructorThrows(options)
       THEN inst' = "threw" /\ UNCHANGED include
       ELSE inst' = "constructed" /\ include' = Truthy(options.include)
    /\ UNCHANGED <<options, _depGraph, _depGraphTree, _nonDepGraph, _nonDepGraphTree,
                   input, output, clock, walk, fault, changed, lastBuild>>

\* A write of a file of the input directory (fixture.writeSync): a new text
\* at a later mtime.
WriteFile ==
    /\ clock < MaxClock
    /\ \E p \in Paths : \E c \in Contents(p) :
          /\ input' = [input EXCEPT ![p] = File(clock + 1, c)]
          /\ changed' = changed \cup {p}
    /\ clock' = clock + 1
    /\ UNCHANGED <<inst, options, include, _depGraph, _depGraphTree, _nonDepGraph,
                   _nonDepGraphTree, output, walk, fault, lastBuild>>

\* fs.unlink of a file of the input directory.
Unlink ==
    /\ clock < MaxClock
    /\ \E p \in Paths :
          /\ input[p].exists
          /\ input' = [input EXCEPT ![p] = Absent]
          /\ changed' = changed \cup {p}
    /\ clock' = clock + 1
    /\ UNCHANGED <<inst, options, include, _depGraph, _depGraphTree, _nonDepGraph,
                   _nonDepGraphTree, output, walk, fault, lastBuild>>

\* pipeline.build(): one call of build(), to its return or its throw.  A
\* pending I/O error is gone afterwards.
Build ==
    /\ inst = "constructed"
    /\ LET b == build
       IN  /\ _depGraph' = b.depGraph
           /\ _depGraphTree' = b.depGraphTree
           /\ _nonDepGraph' = b.nonDepGraph
           /\ _nonDepGraphTree' = b.nonDepGraphTree
           /\ output' = b.out
           /\ lastBuild' =
                 [ran |-> TRUE, branch |-> b.branch, threw |-> b.threw, wiped |-> b.wiped,
                  copied |-> b.copied, patched |-> b.patched, changed |-> changed,
                  changedGraph |-> IsDef(_depGraph) /\ changed \cap Range(Val(_depGraph)) # {},
                  hadGraph |-> IsDef(_depGraph),
                  prevOk |-> lastBuild.ran /\ ~lastBuild.threw,
                  outBefore |-> output,
                  faulted |-> b.faulted,
                  prevFaulted |-> lastBuild.ran /\ lastBuild.faulted,
                  snapshotEqual |-> /\ IsDef(_depGraph) /\ IsDef(_depGraphTree)
                                    /\ ~_getFSTree(Val(_depGraph)).threw
                                    /\ _getFSTree(Val(_depGraph)).tree = Val(_depGraphTree),
                  cachesKept |-> /\ b.depGraph = _depGraph
                                 /\ b.depGraphTree = _depGraphTree
                                 /\ b.nonDepGraph = _nonDepGraph]
    /\ changed' = {}
    /\ fault' = "none"
    /\ UNCHANGED <<inst, options, include, input, clock, walk>>

Next == Construct \/ WriteFile \/ Unlink \/ Build

Spec == Init /\ [][Next]_vars

\* The constructor under every pair of option values, followed by builds of
\* the fixture.
InitCtor == InitWith([include : OptionValues, exclude : OptionValues])

NextCtor == Construct \/ Build

SpecCtor == InitCtor /\ [][NextCtor]_vars

\* The file system turns faulty: the next rimraf.sync, or the next copyFile,
\* of a recomputation throws.
InjectFault ==
    /\ inst = "constructed"
    /\ fault = "none"
    /\ fault' \in {"rimraf", "copy"}
    /\ UNCHANGED <<inst, options, include, _depGraph, _depGraphTree, _nonDepGraph,
                   _nonDepGraphTree, input, output, clock, walk, changed, lastBuild>>

NextFault == Construct \/ WriteFile \/ Unlink \/ Build \/ InjectFault

\* Builds over a file system that may fail during the wipe or the copy.
SpecFault == Init /\ [][NextFault]_vars

\* The texts of the input trees rollup walks: those of Contents, and a
\* utils/derp.js that imports itself or imports utils/foo.js back.
WalkContents(p) ==
    IF p = <<"utils", "derp.js">>
    THEN Contents(p) \cup { << <<".", "derp">> >>, << <<".", "foo">> >> }
    ELSE Contents(p)

\* Every input tree of these texts that holds the entry.
WalkTrees ==
    { t \in [Paths -> {Absent} \cup {File(0, c) : c \in UNION {WalkContents(p) : p \in Paths}}] :
         /\ t[entry].exists
         /\ \A p \in Paths : t[p].exists => t[p].imports \in WalkContents(p) }

\* build() has reached rollup(rollupOptions) (line 70): the entry exists.
InitWalk ==
    /\ inst = "constructed"
    /\ options \in TestOptions
    /\ include = Truthy(options.include)
    /\ _depGraph = <<>>
    /\ _depGraphTree = <<>>
    /\ _nonDepGraph = <<>>
    /\ _nonDepGraphTree = <<>>
    /\ input \in WalkTrees
    /\ output = [p \in Paths |-> Absent]
    /\ clock = 0
    /\ walk = fetchEntry
    /\ fault = "none"
    /\ changed = {}
    /\ lastBuild = NoBuild

\* rollup resolves the next import.
WalkStep ==
    /\ ~walk.done
    /\ walk' = fetchStep(walk)
    /\ UNCHANGED <<inst, options, include, _depGraph, _depGraphTree, _nonDepGraph,
                   _nonDepGraphTree, input, output, clock, fault, changed, lastBuild>>

NextWalk == WalkStep

\* The walk of one rollup call, step by step; rollup's promise chain runs
\* every step that is enabled.
SpecWalk == InitWalk /\ [][NextWalk]_vars /\ WF_vars(WalkStep)

-----------------------------------------------------------------------------
(* What the claims speak of.                                               *)

InputFiles == {p \in Paths : input[p].exists}

OutputFiles == {p \in Paths : output[p].exists}

\* The files a module imports: its specifiers that are not external and
\* name an existing file under the input root.
ImportedBy(p) ==
    {resolveId(s, inputPath \o p).module :
        s \in {t \in Range(input[p].imports) : ~(t \in Range(external))
                                                /\ resolveId(t, inputPath \o p).found}}

RECURSIVE Closure(_)
Closure(S) ==
    LET more == S \cup UNION {ImportedBy(p) : p \in S}
    IN  IF more = S THEN S ELSE Closure(more)

\* The files transitively imported from the entry, the entry included.
Graph == Closure({entry})

\* The set the mode selects.
Selected == IF include THEN Graph ELSE InputFiles \ Graph

\* The state right after a build(): no change of the input since.
AfterBuild == lastBuild.ran /\ changed = {}

\* The last build() left the output alone.
OutputUntouched ==
    /\ ~lastBuild.wiped
    /\ lastBuild.copied = {}
    /\ lastBuild.patched = {}
    /\ output = lastBuild.outBefore

\* C1: after a build() that recomputed the dependency graph with the entry
\* present, the output holds exactly the files the mode selects, as they are
\* in the input: the graph of the entry in include mode, every other input
\* file in exclude mode.
C1_OutputIsSelected ==
    (AfterBuild /\ lastBuild.branch = "full") =>
        /\ OutputFiles = Selected
        /\ \A p \in OutputFiles : output[p] = input[p]

C1_Witness ==
    /\ AfterBuild /\ lastBuild.branch = "full" /\ ~lastBuild.threw
    /\ lastBuild.hadGraph
    /\ ~include
    /\ OutputFiles = {<<"engine.js">>, <<"utils", "foo.js">>}

\* C2: a build() that follows a successful build() with no change of the
\* input in between does not throw and does nothing to the output.
C2_UnchangedRebuildIsStable ==
    (lastBuild.ran /\ lastBuild.prevOk /\ lastBuild.changed = {}) =>
        (~lastBuild.threw /\ OutputUntouched)

\* C3: in include mode, with a dependency graph cached, a build() that
\* follows changes of files outside the cached graph only leaves the output
\* as it was: no wipe, no copy, no patch operation.
C3_IncludeStableOutsideGraph ==
    (/\ lastBuild.ran /\ include /\ lastBuild.hadGraph
     /\ lastBuild.changed # {} /\ ~lastBuild.changedGraph) => OutputUntouched

C3_Witness ==
    /\ lastBuild.ran /\ include /\ lastBuild.hadGraph /\ lastBuild.prevOk
    /\ lastBuild.branch = "diff" /\ ~lastBuild.threw
    /\ lastBuild.changed = {<<"engine.js">>}
    /\ OutputFiles = {<<"routes.js">>, <<"utils", "derp.js">>, <<"utils", "foo.js">>}

\* C4: when a file of the cached dependency graph was written or removed and
\* the entry exists, the next build() recomputes: it wipes the output, leaves
\* it equal to the set the mode selects for the new graph, and replaces both
\* cached sets and both snapshots by those of the new graph.
C4_GraphChangeRecomputes ==
    (/\ AfterBuild /\ lastBuild.prevOk /\ lastBuild.hadGraph
     /\ lastBuild.changedGraph /\ existsSync(entry)) =>
        /\ lastBuild.branch = "full" /\ ~lastBuild.threw /\ lastBuild.wiped
        /\ OutputFiles = Selected
        /\ IsDef(_depGraph) /\ Range(Val(_depGraph)) = Graph
        /\ IsDef(_nonDepGraph) /\ Range(Val(_nonDepGraph)) = InputFiles \ Graph
        /\ _depGraphTree = <<_getFSTree(Val(_depGraph)).tree>>
        /\ _nonDepGraphTree = <<_getFSTree(Val(_nonDepGraph)).tree>>

\* C5: in exclude mode, a build() that finds no file of the cached graph
\* changed succeeds, leaves every file of the complement in the output as it
\* is in the input (absent when the input file is gone), and touches no
\* output file whose input did not change since the previous build().
C5_ExcludeDifferentialUpdate ==
    (AfterBuild /\ ~include /\ lastBuild.branch = "diff") =>
        /\ ~lastBuild.threw
        /\ \A p \in Range(Val(_nonDepGraph)) : output[p] = input[p]
        /\ lastBuild.patched \subseteq lastBuild.changed

\* C6: after a build(), when both cached sets are defined they are disjoint
\* and together hold exactly the files of the input root.
C6_Partition ==
    (AfterBuild /\ IsDef(_depGraph) /\ IsDef(_nonDepGraph)) =>
        /\ Range(Val(_depGraph)) \cap Range(Val(_nonDepGraph)) = {}
        /\ Range(Val(_depGraph)) \cup Range(Val(_nonDepGraph)) = InputFiles

\* C7: the constructor succeeds exactly when one of include / exclude is
\* truthy and the other is not, and build() runs on constructed instances only.
C7_ExactlyOneOption ==
    /\ inst # "none" =>
          (inst = "constructed" <=> (Truthy(options.include) # Truthy(options.exclude)))
    /\ lastBuild.ran => inst = "constructed"

\* C8: in exclude mode, after a build() that found the entry missing, the
\* output holds exactly the files of the input root.
C8_EntryAbsentExcludeCopiesRoot ==
    (AfterBuild /\ ~include /\ lastBuild.branch = "absent") =>
        /\ OutputFiles = InputFiles
        /\ \A p \in OutputFiles : output[p] = input[p]

\* C9: in include mode, after a build() that found the entry missing, the
\* output is empty.
C9_EntryAbsentIncludeEmpty ==
    (AfterBuild /\ include /\ lastBuild.branch = "absent") => OutputFiles = {}

C11_ExcludeCreationPropagates ==
    (AfterBuild /\ ~include /\ lastBuild.branch = "diff") =>
        \A p \in lastBuild.changed :
            (/\ input[p].exists
             /\ p \notin Range(Val(_depGraph)) \cup Range(Val(_nonDepGraph))
             /\ p \notin Graph) => output[p].exists

\* C12: after a build() that found the entry missing, no dependency graph is
\* cached.
C12_EntryAbsentClearsGraph ==
    (AfterBuild /\ lastBuild.branch = "absent") => ~IsDef(_depGraph)

\* C13: the cached dependency graph set is sorted with no path twice,
\* whatever the import graph, and a build() that recomputes the graph does
\* not throw when it takes the snapshots.
C13_DepGraphSortedUnique ==
    /\ IsDef(_depGraph) =>
          \A i \in 2..Len(Val(_depGraph)) :
              Rank(Val(_depGraph)[i - 1]) < Rank(Val(_depGraph)[i])
    /\ (lastBuild.ran /\ lastBuild.branch = "full") => ~lastBuild.threw

\* C14: after a build() on the differential path that found the files of the
\* cached complement changed, the cached complement snapshot is the snapshot
\* of the input as it is now, in both modes.
C14_DiffRefreshesSnapshot ==
    (/\ AfterBuild /\ lastBuild.branch = "diff" /\ ~lastBuild.threw
     /\ lastBuild.changed \cap Range(Val(_nonDepGraph)) # {}) =>
        _nonDepGraphTree = <<_getFSTree(Val(_nonDepGraph)).tree>>

\* C15: a build() that follows a build() aborted by an I/O error of the wipe
\* or the copy of a recomputation, with the input unchanged and the error
\* gone, does not throw, and with the entry present it leaves the output
\* equal to the set the mode selects.
C15_RetryAfterFaultRecovers ==
    (/\ AfterBuild /\ lastBuild.prevFaulted /\ ~lastBuild.faulted
     /\ lastBuild.changed = {}) =>
        /\ ~lastBuild.threw
        /\ existsSync(entry) => OutputFiles = Selected

\* C16: between build() calls the four cache fields are all defined or all
\* undefined, also after a build() that threw part-way.
C16_CachesAllOrNone ==
    /\ IsDef(_depGraph) = IsDef(_depGraphTree)
    /\ IsDef(_depGraph) = IsDef(_nonDepGraph)
    /\ IsDef(_depGraph) = IsDef(_nonDepGraphTree)

\* C17: a build() that finds a graph cached and the snapshot of the cached
\* graph paths equal to the cached snapshot does not resolve again and leaves
\* the cached graph set, its snapshot and the cached complement path list as
\* they were, whatever changed outside the graph.
C17_FastPathKeepsCaches ==
    (lastBuild.ran /\ lastBuild.snapshotEqual) =>
        (lastBuild.branch = "diff" /\ lastBuild.cachesKept)

\* A file created outside the cached graph made the cached graph stale (the
\* entry's import of utils/foo resolves now) and the build kept the caches.
C17_Witness ==
    /\ AfterBuild /\ lastBuild.snapshotEqual
    /\ lastBuild.branch = "diff" /\ lastBuild.cachesKept
    /\ lastBuild.changed = {<<"utils", "foo.js">>}
    /\ <<"utils", "foo.js">> \in Graph
    /\ <<"utils", "foo.js">> \notin Range(Val(_depGraph))

\* C18: an import that is not external and names no file under the input
\* root is no error: the walk records no path for it, and rollup does not
\* reject, so that no build() ends in the walk.
C18_UnresolvedImportIsNoError ==
    /\ existsSync(entry) =>
          \A p \in Range(rollup.loaded) : \A s \in Range(input[p].imports) :
              (~isExternal(s) /\ ~resolveId(s, inputPath \o p).found) =>
                  resolveId(s, inputPath \o p).module \notin Range(rollup.modules)
    /\ lastBuild.ran => lastBuild.branch # "walk"

\* C19: the walk of the modules ends for every input tree, cyclic imports
\* included, and no module is loaded (its imports walked) more than once.
C19_WalkTerminatesLoadsOnce ==
    /\ <>walk.done
    /\ [](\A i, j \in 1..Len(walk.loaded) : walk.loaded[i] = walk.loaded[j] => i = j)

\* The walk of a cycle through the entry has ended: utils/foo.js imports
\* ../routes, the entry was resolved a second time and not loaded again.
C19_Witness ==
    /\ walk.done /\ ~walk.threw
    /\ input[<<"utils", "foo.js">>].exists
    /\ input[<<"utils", "foo.js">>].imports = << <<"..", "routes">> >>
    /\ walk.modules = <<entry, <<"utils", "foo.js">>, entry>>
    /\ walk.loaded = <<entry, <<"utils", "foo.js">>>>

====
